---- MODULE Spec2Model ----
(***************************************************************************)
(* State-machine model of frontend/script.js: the signup / login /         *)
(* test-login flows, the local session store, the career-setup wizard and  *)
(* the career quiz.  Every event-handler callback (or, for an async        *)
(* handler, every segment between two awaits) is one action.               *)
(*                                                                         *)
(* Abstraction boundary: the markup is not part of the repository, so the  *)
(* elements the script looks up are taken to exist, the modals and the     *)
(* dashboard start hidden and the landing page starts shown.  The text a   *)
(* user types into a form is an input of the submit action, it is not kept *)
(* as state.  The backend is external: a response is any of Responses.     *)
(***************************************************************************)
EXTENDS Integers, FiniteSets, Sequences, Bags, TLC

(* ------------------------------ bounds -------------------------------- *)
\* Largest number of .wizard-step panels the markup may hold.
MaxSteps == 4
\* Largest number of requests outstanding at once.
MaxInflight == 2
\* A user picks among the first MaxOption options of a quiz question.
MaxOption == 2

(* ------------------------- program constants -------------------------- *)
\* quizData.length
NumQuestions == 5
\* quizData[i].options.length
NumOptions == <<6, 5, 5, 4, 2>>

LS_USER_ID == "cg_user_id"
LS_TOKEN == "cg_access_token"
LS_PROFILE == "cg_profile"
\* the two keys the dashboard / quiz code touches
LS_SESSION == "session"
LS_QUIZ_USER == "userId"
Keys == {LS_USER_ID, LS_TOKEN, LS_PROFILE, LS_SESSION, LS_QUIZ_USER}
\* localStorage.getItem of a key that was never set
Absent == "<null>"

\* Accounts known to the backend; an account's e-mail identifies it.
Users == {"alice", "bob"}
\* user_id the backend reports for the /login-test bypass
TestUser == "dev"
\* access token the backend issues for an account
TokenOf(u) == "tok-" \o u
UserIds == Users \cup {TestUser}
Tokens == {TokenOf(u) : u \in Users} \cup {"test-token"}

Elements == {"signup-modal", "career-setup-overlay", "landing-container",
             "db-shell", "career-quiz-modal", "quiz-next-btn", "quiz-submit-btn"}
Modals == {"signup-modal", "career-setup-overlay"}
StatusEls == {"signup-status", "login-status"}

(* ----------------------------- responses ------------------------------ *)
\* Fields of a JSON object body the handlers look at.  "error" stands for a
\* truthy j.error or j.message, "user_id" for j.user_id or j.user.id,
\* "access_token" for j.access_token, j.token or j.id_token, "profile" for a
\* profile object with at least one key.
Fields == {"error", "user_id", "access_token", "profile"}
\* A response body as text: empty, a JSON object, the JSON literal null, or
\* text that is not JSON.
Bodies == [kind : {"empty", "null", "nonjson"}, fields : {{}}]
          \cup [kind : {"json"}, fields : SUBSET Fields]
\* What fetch() settles to: a rejection, or a response with resp.ok and a body.
Responses == [rejected : {TRUE}, ok : {FALSE}, body : {[kind |-> "empty", fields |-> {}]}]
             \cup [rejected : {FALSE}, ok : BOOLEAN, body : Bodies]

\* JavaScript null as the value of j
Null == [isNull |-> TRUE, fields |-> {}]
Obj(fs) == [isNull |-> FALSE, fields |-> fs]

\* safeJSON: txt ? JSON.parse(txt) : {}, and null when JSON.parse throws.
safeJSON(body) ==
    IF body.kind = "empty" THEN Obj({})
    ELSE IF body.kind = "json" THEN Obj(body.fields)
    ELSE Null

\* j && j.f  (truthiness of a field read guarded against null)
Has(j, f) == ~j.isNull /\ f \in j.fields

VARIABLES
    phase,       \* "loading" | "main" | "ready": DOMContentLoaded listeners run so far
    storage,     \* localStorage
    dom,         \* class "hidden", aria-hidden, overflow style, focus-trap bookkeeping
    statusText,  \* textContent of #signup-status and #login-status
    timers,      \* status elements with a showStatus clear-timer pending
    stepEls,     \* stepEls.length, fixed when the page is built
    wizard,      \* currentStepIndex and what updateWizardUI writes
    quiz,        \* currentQuestion, answers, the rendered question, the checked radio
    inflight,    \* bag of handler continuations awaiting a fetch
    alertMsg,    \* alert() raised by the last callback ("" if none)
    thrown,      \* exception raised inside the last callback ("none" if none)
    uncaught     \* TRUE iff that exception left the callback uncaught

vars == <<phase, storage, dom, statusText, timers, stepEls, wizard, quiz,
          inflight, alertMsg, thrown, uncaught>>

(* ------------------------- session helpers ---------------------------- *)
\* setSession: each key is written only when its value is truthy.
setSession(st, userId, accessToken) ==
    [k \in Keys |->
        IF k = LS_USER_ID /\ userId # "" THEN userId
        ELSE IF k = LS_TOKEN /\ accessToken # "" THEN accessToken
        ELSE st[k]]

clearSession(st) ==
    [k \in Keys |-> IF k \in {LS_USER_ID, LS_TOKEN} THEN Absent ELSE st[k]]

\* localStorage.getItem(k) || ""
GetOrEmpty(st, k) == IF st[k] = Absent THEN "" ELSE st[k]
getUserId(st) == GetOrEmpty(st, LS_USER_ID)
getToken(st) == GetOrEmpty(st, LS_TOKEN)

\* getAuthHeaders: the Authorization header carried by /update-profile
getAuthHeaders(st) == IF getToken(st) # "" THEN "Bearer " \o getToken(st) ELSE ""

(* --------------------------- modal helpers ---------------------------- *)
openModal(d, el) ==
    [d EXCEPT !.hidden[el] = FALSE,
              !.ariaHidden[el] = FALSE,
              !.overflow = "hidden",
              !.removeFocusTrap = TRUE,
              !.lastFocusedBeforeOpen = TRUE]

closeModal(d, el) ==
    [d EXCEPT !.hidden[el] = TRUE,
              !.ariaHidden[el] = TRUE,
              !.overflow = "",
              !.removeFocusTrap = FALSE,
              !.lastFocusedBeforeOpen = FALSE]

\* el.classList.add("hidden") / el.classList.remove("hidden")
AddHidden(d, el) == [d EXCEPT !.hidden[el] = TRUE]
RemoveHidden(d, el) == [d EXCEPT !.hidden[el] = FALSE]

\* The three lines every "go to dashboard" block starts with.
ShowDashboard(d) ==
    RemoveHidden(AddHidden(AddHidden(d, "landing-container"), "signup-modal"), "db-shell")

Visible(el) == ~dom.hidden[el]

(* ------------------------------ statuses ------------------------------ *)
\* showStatus(el, msg): the text is set and a timer to clear it is started
\* (ms defaults to 2500, so a timer is always started).
showStatusText(t, el, msg) == [t EXCEPT ![el] = msg]
showStatusTimers(tm, el) == tm \cup {el}

\* (j && (j.error || j.message)) || `<what> failed (${resp.status})`
ErrText(j, what) == IF Has(j, "error") THEN "<server message>" ELSE what \o " failed (status)"

(* ------------------------------- wizard ------------------------------- *)
\* aria-valuenow before updateWizardUI has ever written it
Unwritten == 0 - 1

\* Math.round(num / den * 100) for num, den > 0
RoundPct(num, den) == (200 * num + den) \div (2 * den)

Max(a, b) == IF a >= b THEN a ELSE b
Min(a, b) == IF a <= b THEN a ELSE b

\* updateWizardUI with the percentage counted from zero: (index / (n - 1)) * 100
updateWizardUIZeroBased(w, n) ==
    IF n = 0 THEN w
    ELSE [w EXCEPT
            !.active = {i \in 0 .. n - 1 : i = w.currentStepIndex},
            !.prevDisabled = (w.currentStepIndex = 0),
            !.nextDisplay = IF w.currentStepIndex = n - 1 THEN "none" ELSE "inline-block",
            !.submitDisplay = IF w.currentStepIndex = n - 1 THEN "inline-block" ELSE "none",
            !.pct = RoundPct(w.currentStepIndex, Max(1, n - 1))]

\* updateWizardUI that marks the current panel and never unmarks another
updateWizardUIAddOnly(w, n) ==
    IF n = 0 THEN w
    ELSE [w EXCEPT
            !.active = @ \cup {i \in 0 .. n - 1 : i = w.currentStepIndex},
            !.prevDisabled = (w.currentStepIndex = 0),
            !.nextDisplay = IF w.currentStepIndex = n - 1 THEN "none" ELSE "inline-block",
            !.submitDisplay = IF w.currentStepIndex = n - 1 THEN "inline-block" ELSE "none",
            !.pct = RoundPct(w.currentStepIndex + 1, Max(1, n))]

\* updateWizardUI with stepEls.length = n
updateWizardUI(w, n) ==
    IF n = 0 THEN w
    ELSE [w EXCEPT
            !.active = {i \in 0 .. n - 1 : i = w.currentStepIndex},
            !.prevDisabled = (w.currentStepIndex = 0),
            !.nextDisplay = IF w.currentStepIndex = n - 1 THEN "none" ELSE "inline-block",
            !.submitDisplay = IF w.currentStepIndex = n - 1 THEN "inline-block" ELSE "none",
            !.pct = RoundPct(w.currentStepIndex + 1, Max(1, n))]

\* openWizardOverlay, on the DOM and on the wizard
openWizardOverlayDom(d) == openModal(d, "career-setup-overlay")
openWizardOverlayWizard(w, n) == updateWizardUI([w EXCEPT !.currentStepIndex = 0], n)
closeWizardOverlay(d) == closeModal(d, "career-setup-overlay")

(* -------------------------------- quiz -------------------------------- *)
\* #quiz-container holds no question
NoQuestion == NumQuestions
\* no radio of the rendered question is checked
NoOption == 0

\* loadQuestion(index): the container is rebuilt, so nothing is checked
loadQuestion(q, index) == [q EXCEPT !.displayed = index, !.checked = NoOption]

(* ------------------------------- state -------------------------------- *)
InitialStorage == [k \in Keys |-> Absent]

InitialDom ==
    [hidden |-> [e \in Elements |->
                    e \in {"signup-modal", "career-setup-overlay", "db-shell",
                           "career-quiz-modal", "quiz-submit-btn"}],
     ariaHidden |-> [m \in Modals |-> TRUE],
     overflow |-> "",
     removeFocusTrap |-> FALSE,
     lastFocusedBeforeOpen |-> FALSE]

\* The markup may mark no step panel or the first one as active.
InitialWizards(n) ==
    [currentStepIndex : {0},
     active : IF n = 0 THEN {{}} ELSE {{}, {0}},
     prevDisabled : {FALSE},
     nextDisplay : {""},
     submitDisplay : {""},
     pct : {Unwritten}]

\* The markup may hold the first question in #quiz-container or leave it empty.
InitialQuizzes ==
    [currentQuestion : {0},
     answers : {[i \in 1 .. NumQuestions |-> NoOption]},
     displayed : {NoQuestion, 0},
     checked : {NoOption}]

Quiet == alertMsg' = "" /\ thrown' = "none" /\ uncaught' = FALSE
Alert(msg) == alertMsg' = msg /\ thrown' = "none" /\ uncaught' = FALSE
\* an exception of type t caught by the handler's own catch block
Caught(t, msg) == alertMsg' = msg /\ thrown' = t /\ uncaught' = FALSE
\* an exception of type t that leaves the callback
Uncaught(t) == alertMsg' = "" /\ thrown' = t /\ uncaught' = TRUE

\* The page as the script finds it, with n step panels in the wizard form.
InitPage(n) ==
    /\ phase = "loading"
    /\ storage = InitialStorage
    /\ dom = InitialDom
    /\ statusText = [e \in StatusEls |-> ""]
    /\ timers = {}
    /\ stepEls = n
    /\ wizard \in InitialWizards(stepEls)
    /\ quiz \in InitialQuizzes
    /\ inflight = EmptyBag
    /\ alertMsg = ""
    /\ thrown = "none"
    /\ uncaught = FALSE

Init == \E n \in 0 .. MaxSteps : InitPage(n)
\* Pages for the flows that never touch the quiz (its container is left
\* empty) or never touch the wizard (no panel is marked active).
InitWizard == (\E n \in 0 .. MaxSteps : InitPage(n)) /\ quiz.displayed = NoQuestion
InitLongWizard == InitPage(MaxSteps) /\ quiz.displayed = NoQuestion
InitQuiz == InitPage(MaxSteps) /\ wizard.active = {}
\* The quiz page whose markup already holds the first question.
InitQuizLoaded == InitQuiz /\ quiz.displayed = 0

(* ----------------------------- page load ------------------------------ *)
\* First DOMContentLoaded listener: looks the elements up, registers the
\* handlers, exposes window._cg_session.
DOMContentLoadedMain ==
    /\ phase = "loading"
    /\ phase' = "main"
    /\ Quiet
    /\ UNCHANGED <<storage, dom, statusText, timers, stepEls, wizard, quiz, inflight>>

\* Second DOMContentLoaded listener: getSession is defined nowhere, so its
\* first statement throws a ReferenceError and neither branch runs.
DOMContentLoadedDashboard ==
    /\ phase = "main"
    /\ phase' = "ready"
    /\ Uncaught("ReferenceError")
    /\ UNCHANGED <<storage, dom, statusText, timers, stepEls, wizard, quiz, inflight>>

Ready == phase = "ready"

\* A showStatus timer fires: the text is cleared; further timers of the
\* same element may still be pending.
StatusTimer(el) ==
    /\ Ready
    /\ el \in timers
    /\ statusText' = [statusText EXCEPT ![el] = ""]
    /\ timers' \in {timers, timers \ {el}}
    /\ Quiet
    /\ UNCHANGED <<phase, storage, dom, stepEls, wizard, quiz, inflight>>

(* ------------------------------ requests ------------------------------ *)
\* A handler suspended at an await of fetch: the endpoint, the account the
\* request is about and the token its headers carry.
Request(kind, user, token) == [kind |-> kind, user |-> user, token |-> token]
Send(b, r) == b (+) SetToBag({r})
Take(b, r) == b (-) SetToBag({r})
Pending(kind) == {r \in BagToSet(inflight) : r.kind = kind}
CanSend == BagCardinality(inflight) < MaxInflight

\* The backend names a user only for an account it knows.
Answers(r, resp) ==
    "user_id" \in resp.body.fields => r.user \in UserIds

\* (j && (j.user_id || j.user?.id)) || ""
UserIdOf(j, r) == IF Has(j, "user_id") THEN r.user ELSE ""
\* (j && (j.access_token || j.token || j.id_token)) || ""
TokenIn(j, r) == IF Has(j, "access_token") THEN TokenOf(r.user) ELSE ""

(* ------------------------------- signup ------------------------------- *)
\* What a user may type into the forms.
Names == {"", "Ann"}
RawEmails == {"", " ", "alice", " Alice ", "bob"}
Passwords == {"", "pw", "other"}

\* email.trim().toLowerCase()
NormalizeEmail(raw) ==
    CASE raw = " " -> ""
      [] raw = " Alice " -> "alice"
      [] OTHER -> raw

\* The validation without the comparison of the two passwords
SignupProblemNoConfirm(full_name, email, password, password2) ==
    IF full_name = "" \/ email = "" \/ password = ""
    THEN "Please fill name, email and password."
    ELSE ""

\* The validation at the head of the signup handler: the status message of
\* the first check that fails, "" when the submission is accepted.
SignupProblem(full_name, email, password, password2) ==
    IF full_name = "" \/ email = "" \/ password = ""
    THEN "Please fill name, email and password."
    ELSE IF password # password2 THEN "Passwords do not match."
    ELSE ""

OpenSignup ==
    /\ Ready
    /\ Visible("landing-container")
    /\ dom' = openModal(dom, "signup-modal")
    /\ Quiet
    /\ UNCHANGED <<phase, storage, statusText, timers, stepEls, wizard, quiz, inflight>>

\* A click on the backdrop or on a close-signup / cancel-signup control.
SignupModalClose ==
    /\ Ready
    /\ Visible("signup-modal")
    /\ dom' = closeModal(dom, "signup-modal")
    /\ Quiet
    /\ UNCHANGED <<phase, storage, statusText, timers, stepEls, wizard, quiz, inflight>>

\* signupForm submit, up to the await of fetch(/signup).
SignupSubmit(full_name, raw, password, password2) ==
    /\ Ready
    /\ Visible("signup-modal")
    /\ LET email == NormalizeEmail(raw)
           problem == SignupProblem(full_name, email, password, password2)
       IN IF problem # ""
          THEN /\ statusText' = showStatusText(statusText, "signup-status", problem)
               /\ UNCHANGED inflight
          ELSE /\ CanSend
               /\ statusText' = showStatusText(statusText, "signup-status", "Signing up...")
               /\ inflight' = Send(inflight, Request("signup", email, ""))
    /\ timers' = showStatusTimers(timers, "signup-status")
    /\ Quiet
    /\ UNCHANGED <<phase, storage, dom, stepEls, wizard, quiz>>

\* signupForm submit, from the settled fetch to the end of the handler.
SignupResponse(r, resp) ==
    /\ Ready
    /\ r \in Pending("signup")
    /\ Answers(r, resp)
    /\ inflight' = Take(inflight, r)
    /\ LET j == safeJSON(resp.body)
           userId == UserIdOf(j, r)
           accessToken == TokenIn(j, r)
       IN IF resp.rejected
          THEN /\ statusText' = showStatusText(statusText, "signup-status",
                                               "Network or server error during signup.")
               /\ timers' = showStatusTimers(timers, "signup-status")
               /\ Caught("NetworkError", "")
               /\ UNCHANGED <<storage, dom, wizard>>
          ELSE IF ~resp.ok
          THEN /\ statusText' = showStatusText(statusText, "signup-status", ErrText(j, "Signup"))
               /\ timers' = showStatusTimers(timers, "signup-status")
               /\ Quiet
               /\ UNCHANGED <<storage, dom, wizard>>
          ELSE IF userId = ""
          THEN /\ statusText' = showStatusText(statusText, "signup-status",
                                 "Signup succeeded but no user_id returned from server.")
               /\ timers' = showStatusTimers(timers, "signup-status")
               /\ Quiet
               /\ UNCHANGED <<storage, dom, wizard>>
          ELSE /\ storage' = setSession(storage, userId, accessToken)
               /\ dom' = openWizardOverlayDom(closeModal(dom, "signup-modal"))
               /\ wizard' = openWizardOverlayWizard(wizard, stepEls)
               /\ Quiet
               /\ UNCHANGED <<statusText, timers>>
    /\ UNCHANGED <<phase, stepEls, quiz>>

(* ------------------------- wizard navigation -------------------------- *)
\* The guards with the comparison off by one
CanAdvanceOffByOne(w, n) == w.currentStepIndex < n
CanGoBackOffByOne(w) == w.currentStepIndex >= 0

\* The guards of the ws-next and ws-prev click handlers.
CanAdvance(w, n) == w.currentStepIndex < n - 1
CanGoBack(w) == w.currentStepIndex > 0

\* A click on the overlay's backdrop or on a close-wizard control.
WizardClose ==
    /\ Ready
    /\ Visible("career-setup-overlay")
    /\ dom' = closeWizardOverlay(dom)
    /\ Quiet
    /\ UNCHANGED <<phase, storage, statusText, timers, stepEls, wizard, quiz, inflight>>

WizardNext ==
    /\ Ready
    /\ Visible("career-setup-overlay")
    /\ wizard' = IF CanAdvance(wizard, stepEls)
                 THEN updateWizardUI([wizard EXCEPT !.currentStepIndex = @ + 1], stepEls)
                 ELSE wizard
    /\ Quiet
    /\ UNCHANGED <<phase, storage, dom, statusText, timers, stepEls, quiz, inflight>>

WizardPrev ==
    /\ Ready
    /\ Visible("career-setup-overlay")
    /\ wizard' = IF CanGoBack(wizard)
                 THEN updateWizardUI([wizard EXCEPT !.currentStepIndex = @ - 1], stepEls)
                 ELSE wizard
    /\ Quiet
    /\ UNCHANGED <<phase, storage, dom, statusText, timers, stepEls, quiz, inflight>>

(* ------------------------------ session ------------------------------- *)
\* window._cg_session.clearSession(), called on the exposed dev object.
ClearSessionCall ==
    /\ phase # "loading"
    /\ storage' = clearSession(storage)
    /\ Quiet
    /\ UNCHANGED <<phase, dom, statusText, timers, stepEls, wizard, quiz, inflight>>

\* logout(): removes the key "session" and swaps dashboard and landing
\* page.  cg_user_id and cg_access_token are not touched.
Logout ==
    /\ Ready
    /\ storage' = [storage EXCEPT ![LS_SESSION] = Absent]
    /\ dom' = RemoveHidden(AddHidden(dom, "db-shell"), "landing-container")
    /\ Quiet
    /\ UNCHANGED <<phase, statusText, timers, stepEls, wizard, quiz, inflight>>

(* --------------------------- update-profile --------------------------- *)
\* The careerForm submit handler without the logged-in check: the request
\* is sent with whatever getUserId returns.
WizardSubmitUngated ==
    /\ Ready
    /\ Visible("career-setup-overlay")
    /\ CanSend
    /\ inflight' = Send(inflight, Request("update-profile", getUserId(storage),
                                          getAuthHeaders(storage)))
    /\ Quiet
    /\ UNCHANGED <<phase, storage, dom, statusText, timers, stepEls, wizard, quiz>>

\* careerForm submit, up to the await of fetch(/update-profile).
WizardSubmit ==
    /\ Ready
    /\ Visible("career-setup-overlay")
    /\ LET userId == getUserId(storage)
       IN IF userId = ""
          THEN /\ Alert("You must be logged in to save your profile. Please sign up / login.")
               /\ UNCHANGED inflight
          ELSE /\ CanSend
               /\ inflight' = Send(inflight, Request("update-profile", userId, getAuthHeaders(storage)))
               /\ Quiet
    /\ UNCHANGED <<phase, storage, dom, statusText, timers, stepEls, wizard, quiz>>

\* careerForm submit, from the settled fetch on.  On success the dashboard
\* block ends in saveSession(userData): both names are undefined, the
\* ReferenceError is caught by the inner catch, which closes the wizard.
UpdateProfileResponse(r, resp) ==
    /\ Ready
    /\ r \in Pending("update-profile")
    /\ inflight' = Take(inflight, r)
    /\ LET j == safeJSON(resp.body)
       IN IF resp.rejected
          THEN /\ Caught("NetworkError", "Network or server error while saving profile.")
               /\ UNCHANGED dom
          ELSE IF ~resp.ok
          THEN /\ Alert("Error saving profile: " \o ErrText(j, "Profile save"))
               /\ UNCHANGED dom
          ELSE /\ dom' = closeWizardOverlay(ShowDashboard(dom))
               /\ Caught("ReferenceError", "Profile saved. Redirect to dashboard failed; wizard closed.")
    /\ UNCHANGED <<phase, storage, statusText, timers, stepEls, wizard, quiz>>

(* -------------------------------- login ------------------------------- *)
\* The login handler reads the e-mail as typed (no trim, no lower-casing).
LoginEmails == {"", "alice", "bob"}

\* The login handler with a loading lock: while a /login request is
\* outstanding a further submission is ignored.
LoginSubmitLocked(email, password) ==
    /\ Ready
    /\ Visible("landing-container")
    /\ IF email = "" \/ password = ""
       THEN /\ statusText' = showStatusText(statusText, "login-status",
                                            "Please enter email & password.")
            /\ UNCHANGED inflight
       ELSE /\ CanSend
            /\ Pending("login") = {}
            /\ statusText' = showStatusText(statusText, "login-status", "Logging in...")
            /\ inflight' = Send(inflight, Request("login", email, ""))
    /\ timers' = showStatusTimers(timers, "login-status")
    /\ Quiet
    /\ UNCHANGED <<phase, storage, dom, stepEls, wizard, quiz>>

\* loginForm submit, up to the await of fetch(/login).
LoginSubmit(email, password) ==
    /\ Ready
    /\ Visible("landing-container")
    /\ IF email = "" \/ password = ""
       THEN /\ statusText' = showStatusText(statusText, "login-status",
                                            "Please enter email & password.")
            /\ UNCHANGED inflight
       ELSE /\ CanSend
            /\ statusText' = showStatusText(statusText, "login-status", "Logging in...")
            /\ inflight' = Send(inflight, Request("login", email, ""))
    /\ timers' = showStatusTimers(timers, "login-status")
    /\ Quiet
    /\ UNCHANGED <<phase, storage, dom, stepEls, wizard, quiz>>

\* loginForm submit, from the settled fetch(/login) to the await of
\* fetch(/profile).
LoginResponse(r, resp) ==
    /\ Ready
    /\ r \in Pending("login")
    /\ Answers(r, resp)
    /\ LET j == safeJSON(resp.body)
           userId == UserIdOf(j, r)
           accessToken == TokenIn(j, r)
       IN IF resp.rejected
          THEN /\ statusText' = showStatusText(statusText, "login-status",
                                               "Network or server error during login.")
               /\ timers' = showStatusTimers(timers, "login-status")
               /\ inflight' = Take(inflight, r)
               /\ Caught("NetworkError", "")
               /\ UNCHANGED storage
          ELSE IF ~resp.ok
          THEN /\ statusText' = showStatusText(statusText, "login-status", ErrText(j, "Login"))
               /\ timers' = showStatusTimers(timers, "login-status")
               /\ inflight' = Take(inflight, r)
               /\ Quiet
               /\ UNCHANGED storage
          ELSE IF userId = ""
          THEN /\ statusText' = showStatusText(statusText, "login-status",
                                               "Login succeeded but no user_id returned.")
               /\ timers' = showStatusTimers(timers, "login-status")
               /\ inflight' = Take(inflight, r)
               /\ Quiet
               /\ UNCHANGED storage
          ELSE /\ storage' = setSession(storage, userId, accessToken)
               /\ inflight' = Send(Take(inflight, r), Request("profile", userId, accessToken))
               /\ Quiet
               /\ UNCHANGED <<statusText, timers>>
    /\ UNCHANGED <<phase, dom, stepEls, wizard, quiz>>

\* loginForm submit, from the settled fetch(/profile) on.  With a non-empty
\* profile the dashboard block ends in saveSession(userData), whose
\* ReferenceError the handler's catch turns into the network-error status.
\* A response that is not ok is not reported: the wizard is opened.
ProfileResponse(r, resp) ==
    /\ Ready
    /\ r \in Pending("profile")
    /\ inflight' = Take(inflight, r)
    /\ LET profJson == safeJSON(resp.body)
       IN IF resp.rejected
          THEN /\ statusText' = showStatusText(statusText, "login-status",
                                               "Network or server error during login.")
               /\ timers' = showStatusTimers(timers, "login-status")
               /\ Caught("NetworkError", "")
               /\ UNCHANGED <<dom, wizard>>
          ELSE IF resp.ok /\ Has(profJson, "profile")
          THEN /\ dom' = ShowDashboard(dom)
               /\ statusText' = showStatusText(statusText, "login-status",
                                               "Network or server error during login.")
               /\ timers' = showStatusTimers(timers, "login-status")
               /\ Caught("ReferenceError", "")
               /\ UNCHANGED wizard
          ELSE /\ dom' = openWizardOverlayDom(dom)
               /\ wizard' = openWizardOverlayWizard(wizard, stepEls)
               /\ Quiet
               /\ UNCHANGED <<statusText, timers>>
    /\ UNCHANGED <<phase, storage, stepEls, quiz>>

\* Two logins in a row: alice's is the first submission on the page, bob's
\* is submitted while alice's /login request is still outstanding.
FirstLogin ==
    /\ statusText["login-status"] = ""
    /\ inflight = EmptyBag
    /\ LoginSubmit("alice", "pw")

SecondLogin ==
    /\ Request("login", "alice", "") \in Pending("login")
    /\ LoginSubmit("bob", "pw")

(* ----------------------------- test login ----------------------------- *)
TestLoginClick ==
    /\ Ready
    /\ Visible("landing-container")
    /\ CanSend
    /\ inflight' = Send(inflight, Request("login-test", TestUser, ""))
    /\ Quiet
    /\ UNCHANGED <<phase, storage, dom, statusText, timers, stepEls, wizard, quiz>>

\* JSON.stringify(j.profile || {})
ProfileText(j) == IF "profile" \in j.fields THEN "{profile}" ELSE "{}"

\* test-login click handler from the settled fetch on.  j.user_id is read
\* without a guard, so a null j throws a TypeError; on success the dashboard
\* block ends in saveSession(userData).  Both land in the handler's catch.
TestLoginResponse(r, resp) ==
    /\ Ready
    /\ r \in Pending("login-test")
    /\ Answers(r, resp)
    /\ inflight' = Take(inflight, r)
    /\ LET j == safeJSON(resp.body)
       IN IF resp.rejected
          THEN /\ Caught("NetworkError", "Network error during test login.")
               /\ UNCHANGED <<storage, dom>>
          ELSE IF ~resp.ok
          THEN /\ Alert("Test login failed: " \o
                        (IF Has(j, "error") THEN "<server message>" ELSE "<status>"))
               /\ UNCHANGED <<storage, dom>>
          ELSE IF j.isNull
          THEN /\ Caught("TypeError", "Network error during test login.")
               /\ UNCHANGED <<storage, dom>>
          ELSE /\ storage' = [setSession(storage, UserIdOf(j, r), "test-token")
                                EXCEPT ![LS_PROFILE] = ProfileText(j)]
               /\ dom' = ShowDashboard(dom)
               /\ Caught("ReferenceError", "Network error during test login.")
    /\ UNCHANGED <<phase, statusText, timers, stepEls, wizard, quiz>>

(* ------------------------------ keyboard ------------------------------ *)
\* Global keydown handler, key Escape: each overlay is closed only when it
\* does not carry the class "hidden".
EscapeDom(d) ==
    LET d1 == IF ~d.hidden["signup-modal"] THEN closeModal(d, "signup-modal") ELSE d
    IN IF ~d1.hidden["career-setup-overlay"] THEN closeWizardOverlay(d1) ELSE d1

Escape ==
    /\ Ready
    /\ dom' = EscapeDom(dom)
    /\ Quiet
    /\ UNCHANGED <<phase, storage, statusText, timers, stepEls, wizard, quiz, inflight>>

(* -------------------------------- quiz -------------------------------- *)
\* Click on the quiz card.  answers is declared const, so "answers = {}"
\* throws a TypeError: the modal is shown and currentQuestion reset, but
\* answers is kept and loadQuestion is never reached.
QuizCardClick ==
    /\ Ready
    /\ Visible("db-shell")
    /\ dom' = RemoveHidden(dom, "career-quiz-modal")
    /\ quiz' = [quiz EXCEPT !.currentQuestion = 0]
    /\ Uncaught("TypeError")
    /\ UNCHANGED <<phase, storage, statusText, timers, stepEls, wizard, inflight>>

\* Document click listener, for a click on the quiz modal's backdrop.
QuizOutsideClick ==
    /\ Ready
    /\ Visible("career-quiz-modal")
    /\ dom' = AddHidden(dom, "career-quiz-modal")
    /\ Quiet
    /\ UNCHANGED <<phase, storage, statusText, timers, stepEls, wizard, quiz, inflight>>

\* The user checks a radio of the rendered question.
QuizSelect(opt) ==
    /\ Ready
    /\ Visible("career-quiz-modal")
    /\ quiz.displayed # NoQuestion
    /\ opt \in 1 .. Min(MaxOption, NumOptions[quiz.displayed + 1])
    /\ quiz' = [quiz EXCEPT !.checked = opt]
    /\ Quiet
    /\ UNCHANGED <<phase, storage, dom, statusText, timers, stepEls, wizard, inflight>>

\* document.querySelector("input:checked"): the checked radio of whatever
\* question is rendered
SelectedAnyChecked(q) == q.checked

\* document.querySelector(`input[name="${quizData[currentQuestion].id}"]:checked`):
\* the checked radio, if the rendered question is the current one.
Selected(q) ==
    IF q.displayed = q.currentQuestion THEN q.checked ELSE NoOption

\* quiz-next-btn click handler.
QuizNext ==
    /\ Ready
    /\ Visible("career-quiz-modal")
    /\ Visible("quiz-next-btn")
    /\ IF quiz.currentQuestion >= NumQuestions
       THEN \* quizData[currentQuestion] is undefined
            /\ Uncaught("TypeError")
            /\ UNCHANGED <<quiz, dom>>
       ELSE IF Selected(quiz) = NoOption
       THEN /\ Alert("Please select an option")
            /\ UNCHANGED <<quiz, dom>>
       ELSE LET answered == [quiz EXCEPT !.answers[quiz.currentQuestion + 1] = Selected(quiz),
                                         !.currentQuestion = @ + 1]
            IN /\ IF answered.currentQuestion < NumQuestions
                  THEN /\ quiz' = loadQuestion(answered, answered.currentQuestion)
                       /\ UNCHANGED dom
                  ELSE /\ quiz' = answered
                       /\ dom' = RemoveHidden(AddHidden(dom, "quiz-next-btn"), "quiz-submit-btn")
               /\ Quiet
    /\ UNCHANGED <<phase, storage, statusText, timers, stepEls, wizard, inflight>>

\* quiz-submit-btn click handler: reads localStorage "userId", logs, alerts
\* and hides the modal.  No request is made and nothing is stored.
QuizSubmit ==
    /\ Ready
    /\ Visible("career-quiz-modal")
    /\ Visible("quiz-submit-btn")
    /\ dom' = AddHidden(dom, "career-quiz-modal")
    /\ Alert("Quiz submitted successfully!")
    /\ UNCHANGED <<phase, storage, statusText, timers, stepEls, wizard, quiz, inflight>>

(* --------------------------- specifications --------------------------- *)
NextLoad ==
    \/ DOMContentLoadedMain
    \/ DOMContentLoadedDashboard

NextSignup ==
    \/ OpenSignup
    \/ SignupModalClose
    \/ \E fn \in Names, raw \in RawEmails, pw \in Passwords, pw2 \in Passwords :
          SignupSubmit(fn, raw, pw, pw2)
    \/ \E r \in Pending("signup"), resp \in Responses : SignupResponse(r, resp)

NextWizardNav ==
    \/ WizardClose
    \/ WizardNext
    \/ WizardPrev

NextProfile ==
    \/ WizardSubmit
    \/ \E r \in Pending("update-profile"), resp \in Responses : UpdateProfileResponse(r, resp)

NextLogin ==
    \/ \E email \in LoginEmails, pw \in Passwords : LoginSubmit(email, pw)
    \/ \E r \in Pending("login"), resp \in Responses : LoginResponse(r, resp)
    \/ \E r \in Pending("profile"), resp \in Responses : ProfileResponse(r, resp)

NextTestLogin ==
    \/ TestLoginClick
    \/ \E r \in Pending("login-test"), resp \in Responses : TestLoginResponse(r, resp)

NextKeys ==
    \/ Escape
    \/ \E el \in StatusEls : StatusTimer(el)

NextSession ==
    \/ ClearSessionCall
    \/ Logout

NextQuiz ==
    \/ QuizCardClick
    \/ QuizOutsideClick
    \/ \E opt \in 1 .. MaxOption : QuizSelect(opt)
    \/ QuizNext
    \/ QuizSubmit

Next ==
    \/ NextLoad
    \/ NextSignup
    \/ NextWizardNav
    \/ NextProfile
    \/ NextLogin
    \/ NextTestLogin
    \/ NextKeys
    \/ NextSession
    \/ NextQuiz

Spec == Init /\ [][Next]_vars

\* A visitor who signs up and walks through the wizard.
WizardSpec == InitWizard /\ [][NextLoad \/ NextSignup \/ NextWizardNav \/ NextKeys]_vars

\* A visitor who logs in and saves a profile.
LoginSpec ==
    InitLongWizard /\ [][NextLoad \/ NextLogin \/ NextWizardNav \/ NextProfile \/ NextKeys]_vars

\* A visitor who signs up, without walking through the wizard.
SignupSpec == InitLongWizard /\ [][NextLoad \/ NextSignup \/ NextKeys]_vars

\* A settled fetch resumes the handler that awaits it.
HandleResponse ==
    \E r \in BagToSet(inflight), resp \in Responses :
        \/ LoginResponse(r, resp)
        \/ ProfileResponse(r, resp)
        \/ UpdateProfileResponse(r, resp)

\* A visitor who logs in and saves a profile in quick succession (before
\* any status timer fires), with a backend that settles every request: the
\* event loop then runs the awaiting handler.
ResubmitSpec ==
    /\ InitLongWizard
    /\ [][NextLoad \/ NextLogin \/ NextProfile]_vars
    /\ WF_vars(HandleResponse)

\* A visitor who enters through the test login and takes the quiz.
QuizSpec == InitQuiz /\ [][NextLoad \/ NextTestLogin \/ NextQuiz]_vars

\* The same visitor on a page whose markup holds the first question.
QuizLoadedSpec == InitQuizLoaded /\ [][NextLoad \/ NextTestLogin \/ NextQuiz]_vars

\* A visitor who uses the test login, the signup dialog and the keyboard.
EscapeSpec ==
    InitLongWizard /\ [][NextLoad \/ OpenSignup \/ SignupModalClose \/ NextTestLogin \/ Escape]_vars

\* A visitor who logs in as alice and, before the answer is there, as bob.
\* No status timer fires in between, so alice's login is submitted once.
NextLoginResponse ==
    \/ \E r \in Pending("login"), resp \in Responses : LoginResponse(r, resp)
    \/ \E r \in Pending("profile"), resp \in Responses : ProfileResponse(r, resp)

OverlapSpec ==
    InitLongWizard /\ [][NextLoad \/ FirstLogin \/ SecondLogin \/ NextLoginResponse]_vars

\* A visitor who signs up and saves a profile, with session calls in between.
SessionSpec == InitLongWizard /\ [][NextLoad \/ NextSignup \/ NextProfile \/ NextSession]_vars

(* ======================= wizard step navigator ======================== *)
\* updateWizardUI has run at least once on a wizard with panels
WizardShown == stepEls >= 1 /\ (Visible("career-setup-overlay") \/ wizard.pct # Unwritten)

\* C1: with totalSteps >= 1 panels the 1-based current step stays within
\* 1 .. totalSteps in every state reachable by open-wizard, next and prev.
C1_StepInRange ==
    stepEls >= 1 =>
        /\ 1 <= wizard.currentStepIndex + 1
        /\ wizard.currentStepIndex + 1 <= stepEls

\* next has been clicked up to the last panel of the longest wizard
C1_AtLastStep ==
    /\ Visible("career-setup-overlay")
    /\ stepEls = MaxSteps
    /\ wizard.currentStepIndex = stepEls - 1

\* round(num / den * 100), zero when the numerator is zero
PctOf(num, den) == (200 * num + den) \div (2 * den)

\* C2 as stated: for totalSteps > 1 the percentage written to the progress
\* bar is round((currentStep - 1) / (totalSteps - 1) * 100), i.e. 0 at the
\* first step.
C2_PercentFromZero ==
    (WizardShown /\ stepEls > 1) =>
        wizard.pct = PctOf(wizard.currentStepIndex, stepEls - 1)

\* C2 amended: the percentage written is round(currentStep / totalSteps * 100)
\* with currentStep 1-based; for totalSteps = 4 it is 25, 50, 75 and 100 at
\* steps 1 to 4.
C2_PercentOfStepCount ==
    WizardShown =>
        /\ wizard.pct = PctOf(wizard.currentStepIndex + 1, stepEls)
        /\ stepEls = 4 => wizard.pct = <<25, 50, 75, 100>>[wizard.currentStepIndex + 1]

\* the second of four steps is shown with the bar at 50
C2_SecondOfFour ==
    /\ Visible("career-setup-overlay")
    /\ stepEls = 4
    /\ wizard.currentStepIndex = 1
    /\ wizard.pct = 50

\* C3: prev at the first step and next at the last step leave the wizard
\* (step index, shown panel, buttons, progress) and the page unchanged.
C3_ClampIsNoOp ==
    [][ /\ (WizardPrev /\ wizard.currentStepIndex = 0) =>
              (wizard' = wizard /\ dom' = dom)
        /\ (WizardNext /\ wizard.currentStepIndex = stepEls - 1) =>
              (wizard' = wizard /\ dom' = dom) ]_vars

\* the wizard is back at its first step after the last step was reached:
\* the initial markup never hides the next button
C3_BackAtFirstStep ==
    /\ Visible("career-setup-overlay")
    /\ stepEls >= 2
    /\ wizard.currentStepIndex = 0
    /\ wizard.prevDisabled
    /\ wizard.nextDisplay = "inline-block"

\* A step that reveals the wizard overlay or rewrites the wizard's state
OpensWizard ==
    \/ dom.hidden["career-setup-overlay"] /\ ~dom'.hidden["career-setup-overlay"]
    \/ wizard' # wizard

\* C4: after open-wizard, next and prev on a wizard with at least one
\* panel exactly one panel is shown, the one of the current step.
C4_ExactlyCurrentPanelShown ==
    [][ (stepEls >= 1 /\ (OpensWizard \/ WizardNext \/ WizardPrev)) =>
            wizard'.active = {wizard'.currentStepIndex} ]_vars

\* a later panel is the only one shown
C4_LaterPanelShown ==
    /\ Visible("career-setup-overlay")
    /\ wizard.currentStepIndex >= 1
    /\ wizard.active = {wizard.currentStepIndex}
    /\ Cardinality(wizard.active) = 1

(* ========================= signup validation ========================== *)
\* C8: a signup submission with an empty name, e-mail or password, or with
\* a password that differs from its confirmation, shows a status message,
\* issues no request, leaves the session alone and leaves the modal open.
C8_InvalidSignupRejected ==
    [][ \A fn \in Names, raw \in RawEmails, pw \in Passwords, pw2 \in Passwords :
          (SignupSubmit(fn, raw, pw, pw2) /\ (fn = "" \/ raw = "" \/ pw = "" \/ pw # pw2)) =>
              /\ statusText'["signup-status"] \in
                    {"Please fill name, email and password.", "Passwords do not match."}
              /\ inflight' = inflight
              /\ storage' = storage
              /\ dom' = dom
              /\ ~dom'.hidden["signup-modal"] ]_vars

\* the mismatch message is on display in the open modal, nothing was sent
C8_MismatchShown ==
    /\ Visible("signup-modal")
    /\ statusText["signup-status"] = "Passwords do not match."
    /\ inflight = EmptyBag
    /\ storage = InitialStorage

(* =========================== error handling =========================== *)
\* C5: no callback ever terminates with an uncaught exception.
C5_NoUncaughtException == ~uncaught

\* Status texts and alerts that report a failed request
ErrorStatuses ==
    {"<server message>", "Signup failed (status)", "Login failed (status)",
     "Network or server error during signup.", "Network or server error during login."}
StatusElOf(r) == IF r.kind = "signup" THEN "signup-status" ELSE "login-status"

\* C6: for the signup, login (/login and /profile), update-profile and
\* login-test requests a rejected fetch or a response that is not ok is
\* caught in the handler and ends in an error message on display.
C6_FailuresReported ==
    [][ \A r \in BagToSet(inflight), resp \in Responses :
          ( /\ resp.rejected \/ ~resp.ok
            /\ \/ SignupResponse(r, resp)
               \/ LoginResponse(r, resp)
               \/ ProfileResponse(r, resp)
               \/ UpdateProfileResponse(r, resp)
               \/ TestLoginResponse(r, resp) ) =>
              /\ ~uncaught'
              /\ \/ alertMsg' # ""
                 \/ /\ statusText'[StatusElOf(r)] \in ErrorStatuses
                    /\ StatusElOf(r) \in timers' ]_vars

\* C7: a body that is not JSON parses to an empty record, so the handler
\* that goes on to read j.user_id does so without a failure.
C7_NonJsonIsEmptyRecord ==
    [][ \A r \in BagToSet(inflight), resp \in Responses :
          (TestLoginResponse(r, resp) /\ ~resp.rejected /\ resp.body.kind = "nonjson") =>
              /\ safeJSON(resp.body) = Obj({})
              /\ thrown' # "TypeError" ]_vars

(* ======================= concurrent submissions ======================= *)
Copies(r, b) == IF r \in BagToSet(b) THEN b[r] ELSE 0

\* A request leaves the bag only by one step of the handler awaiting it.
NoCancellation ==
    \A r \in BagToSet(inflight) :
        Copies(r, inflight') < Copies(r, inflight) =>
            /\ Copies(r, inflight') = Copies(r, inflight) - 1
            /\ \E resp \in Responses :
                  \/ LoginResponse(r, resp)
                  \/ ProfileResponse(r, resp)
                  \/ UpdateProfileResponse(r, resp)

\* A step that issues a request from a form
Submits == BagCardinality(inflight') > BagCardinality(inflight)

\* C9: while a submission's request is outstanding the same form accepts a
\* further submission, which issues a further request; no request is
\* deduplicated or cancelled; and once submissions stop every outstanding
\* response gets handled.
C9_NoSubmissionLock ==
    /\ [](\A u \in Users :
            (Ready /\ Visible("landing-container") /\ Pending("login") # {} /\ CanSend) =>
                ENABLED (LoginSubmit(u, "pw") /\ inflight' = Send(inflight, Request("login", u, ""))))
    /\ []((Ready /\ Visible("career-setup-overlay") /\ Pending("update-profile") # {}
             /\ CanSend /\ getUserId(storage) # "") =>
                ENABLED (WizardSubmit /\ Submits))
    /\ [][NoCancellation]_vars
    /\ ([]<><<Submits>>_vars \/ []<>(inflight = EmptyBag))

\* two /login requests for the same account are outstanding at once
C9_TwoLoginsInFlight ==
    \E u \in Users : Copies(Request("login", u, ""), inflight) = 2

(* ============================ quiz submit ============================= *)
\* C10: submitting the quiz records a (fallback) recommendation result in
\* the local session store.
C10_SubmitRecordsResult == [][QuizSubmit => storage' # storage]_vars

(* ======================== session gates saving ======================== *)
\* C11: an /update-profile request is issued only when a user id is stored
\* at submission time and carries exactly that id; a submission with no
\* stored user id issues no request and changes no stored state.
C11_SessionGatesSaving ==
    [][/\ \A r \in Pending("update-profile")' :
             Copies(r, inflight') > Copies(r, inflight)
                 => getUserId(storage) # "" /\ r.user = getUserId(storage)
       /\ (WizardSubmit /\ getUserId(storage) = "")
             => inflight' = inflight /\ storage' = storage]_vars

\* a submission was refused as not logged in while an earlier, accepted
\* one is still in flight
C11_RefusedAfterAccepted ==
    /\ alertMsg = "You must be logged in to save your profile. Please sign up / login."
    /\ getUserId(storage) = ""
    /\ \E r \in Pending("update-profile") : r.user \in UserIds

(* ====================== stored token and user id ====================== *)
\* C12: in every reachable state the stored access token, if any, was
\* delivered in the same backend response as the stored user id (the
\* backend's token for that user, or the test login's literal token beside
\* the test user's id).
C12_TokenOfStoredUser ==
    getToken(storage) # ""
        => \/ /\ getUserId(storage) \in Users
              /\ getToken(storage) = TokenOf(getUserId(storage))
           \/ /\ getUserId(storage) = TestUser
              /\ getToken(storage) = "test-token"

(* ========================= reopening the quiz ========================= *)
\* C13: after the quiz card is clicked the quiz modal is visible,
\* currentQuestion is 0, the answers record is empty and the question
\* displayed is the first question.
C13_CardClickResetsQuiz ==
    [][QuizCardClick
          => /\ ~dom'.hidden["career-quiz-modal"]
             /\ quiz'.currentQuestion = 0
             /\ \A i \in 1 .. NumQuestions : quiz'.answers[i] = NoOption
             /\ quiz'.displayed = 0]_vars

(* ===================== login with a stored profile ==================== *)
\* C14: a login whose /profile response is successful with a non-empty
\* profile ends with the dashboard shown, the landing page hidden, the
\* wizard not opened and no error status displayed.
C14_ProfileLoginShowsDashboard ==
    [][(\E r \in Pending("profile"), resp \in Responses :
            /\ ProfileResponse(r, resp)
            /\ ~resp.rejected /\ resp.ok /\ Has(safeJSON(resp.body), "profile"))
          => /\ ~dom'.hidden["db-shell"]
             /\ dom'.hidden["landing-container"]
             /\ dom'.hidden["career-setup-overlay"] = dom.hidden["career-setup-overlay"]
             /\ wizard' = wizard
             /\ statusText'["login-status"] \notin ErrorStatuses]_vars

(* ============================= quiz next ============================== *)
\* C15: a click on next while no option of the current question is
\* selected raises the alert and leaves currentQuestion, answers, the
\* displayed question and the next/submit buttons as they were; with an
\* option selected, exactly the current question's answer is set to the
\* selected value and currentQuestion grows by one.
C15_NextValidatesSelection ==
    [][QuizNext
          => IF quiz.displayed = quiz.currentQuestion /\ quiz.checked # NoOption
             THEN /\ quiz'.answers =
                        [quiz.answers EXCEPT ![quiz.currentQuestion + 1] = quiz.checked]
                  /\ quiz'.currentQuestion = quiz.currentQuestion + 1
             ELSE /\ alertMsg' = "Please select an option"
                  /\ quiz' = quiz
                  /\ dom'.hidden["quiz-next-btn"] = dom.hidden["quiz-next-btn"]
                  /\ dom'.hidden["quiz-submit-btn"] = dom.hidden["quiz-submit-btn"]]_vars

\* a click without a selection was refused after an earlier click had
\* recorded the first answer
C15_RefusedAfterAnswer ==
    /\ alertMsg = "Please select an option"
    /\ quiz.answers[1] # NoOption
    /\ quiz.currentQuestion >= 1

(* ============================= escape key ============================= *)
\* C16: pressing Escape leaves the signup modal and the wizard overlay
\* hidden with aria-hidden true, and leaves the wizard step index and the
\* stored session unchanged.
C16_EscapeHidesOverlays ==
    [][Escape
          => /\ \A m \in Modals : dom'.hidden[m] /\ dom'.ariaHidden[m]
             /\ wizard'.currentStepIndex = wizard.currentStepIndex
             /\ storage' = storage]_vars

(* ========================= completing the quiz ======================== *)
\* C17: whenever the quiz modal is open the quiz can still be completed:
\* either the submit button is available, or next is available and the
\* displayed question is the current one, so that selecting one of its
\* options and clicking next advances instead of raising the alert.
C17_QuizCanBeCompleted ==
    Visible("career-quiz-modal")
        => \/ Visible("quiz-submit-btn")
           \/ /\ Visible("quiz-next-btn")
              /\ quiz.displayed = quiz.currentQuestion

(* ========================= overlapping logins ========================= *)
\* C18: when a second login (bob's) was submitted while the first login's
\* (alice's) request was outstanding, the stored user id and token are
\* those of the second login once all responses have been handled, in
\* whatever order they arrive: if alice's /login response is the last one
\* handled and bob's login has already stored its session, the session
\* stays bob's.
C18_LatestLoginWins ==
    [][(/\ \E resp \in Responses : LoginResponse(Request("login", "alice", ""), resp)
        /\ Pending("login")' = {}
        /\ getUserId(storage) = "bob")
          => /\ getUserId(storage') = "bob"
             /\ getToken(storage') = getToken(storage)]_vars

(* =============================== logout =============================== *)
\* C19: after logout() has run, getUserId() and getToken() return the
\* empty string, so that a later wizard submission is refused as not
\* logged in and no request carries a bearer token.
C19_LogoutEndsSession ==
    [][Logout => getUserId(storage') = "" /\ getToken(storage') = ""]_vars

====
